---- MODULE Spec2Model ----
(***************************************************************************)
(* Observation enrichment and distance calculation of the lodestar         *)
(* observation log: AddObservationView.post (observations/views.py),       *)
(* ApiMixin.calculate_distances_from_parallax (observations/models.py) and *)
(* the calculate_solar_system_distances management command.                *)
(*                                                                         *)
(* Numbers.  Python's decimal.Decimal is modelled as it is stored: a       *)
(* coefficient (a sequence of decimal digits, most significant first) and  *)
(* an exponent, with the default context (28 significant digits,           *)
(* ROUND_HALF_EVEN).  Only positive values ever reach the arithmetic, so   *)
(* no sign is kept.  A Python float is a dyadic rational n / 2^k, which is *)
(* what float.as_integer_ratio() hands to Decimal(float).                  *)
(***************************************************************************)
EXTENDS Integers, Sequences, FiniteSets, TLC

(***************************************************************************)
(* Bounds of the model.                                                    *)
(***************************************************************************)
\* Largest number of persisted observations.
MaxObs == 1
\* Number of session rows beyond which no further session is created, when
\* sessions of several users and dates are created and edited.
MaxSessions == 1
\* The same, when all sessions are created for one date.
MaxRaceRows == 5

(***************************************************************************)
(* Program constants.                                                      *)
(***************************************************************************)
\* decimal.getcontext().prec, the default precision of Decimal arithmetic.
DecimalPrec == 28
\* ApiMixin.distance_light_years: max_digits.
LyMaxDigits == 10
\* ApiMixin.distance_miles: max_digits.
MilesMaxDigits == 20
\* decimal_places of both distance fields.
DecimalPlaces == 2
\* Decimal("3260.0"): coefficient 32600, exponent -1.
LyPerParallaxCoef == 32600
LyPerParallaxExp == -1
\* Decimal("5880000000000") = 588 * 10^10, exponent 0.
MilesPerLyHead == 588
MilesPerLyZeros == 10

(***************************************************************************)
(* Natural numbers as digit sequences.                                     *)
(***************************************************************************)
RECURSIVE NatDigits(_)
NatDigits(n) ==
    IF n < 10 THEN <<n>> ELSE Append(NatDigits(n \div 10), n % 10)

RECURSIVE Zeros(_)
Zeros(n) ==
    IF n <= 0 THEN <<>> ELSE Append(Zeros(n - 1), 0)

RECURSIVE StripZeros(_)
StripZeros(ds) ==
    IF Len(ds) > 1 /\ ds[1] = 0 THEN StripZeros(Tail(ds)) ELSE
    IF ds = <<>> THEN <<0>> ELSE ds

RECURSIVE Pow(_, _)
Pow(b, e) ==
    IF e <= 0 THEN 1 ELSE b * Pow(b, e - 1)

\* ds * m for a small natural m (schoolbook, right to left).
RECURSIVE MulCarry(_, _, _, _)
MulCarry(ds, m, i, carry) ==
    IF i = 0
    THEN (IF carry = 0 THEN <<>> ELSE NatDigits(carry))
    ELSE LET v == ds[i] * m + carry
         IN  Append(MulCarry(ds, m, i - 1, v \div 10), v % 10)

MulSmall(ds, m) ==
    StripZeros(MulCarry(ds, m, Len(ds), 0))

\* divmod(ds, d) for a small positive d (long division, left to right).
RECURSIVE DivStep(_, _, _, _, _)
DivStep(ds, d, i, rem, acc) ==
    IF i > Len(ds)
    THEN [q |-> StripZeros(acc), r |-> rem]
    ELSE LET v == rem * 10 + ds[i]
         IN  DivStep(ds, d, i + 1, v % d, Append(acc, v \div d))

DivMod(ds, d) ==
    DivStep(ds, d, 1, 0, <<>>)

\* ds + 1.
RECURSIVE Inc(_)
Inc(ds) ==
    IF ds = <<>> THEN <<1>> ELSE
    IF ds[Len(ds)] < 9
    THEN [ds EXCEPT ![Len(ds)] = @ + 1]
    ELSE Append(Inc(SubSeq(ds, 1, Len(ds) - 1)), 0)

AllZeros(ds, from) ==
    \A i \in from..Len(ds) : ds[i] = 0

\* The value of a short digit sequence.
RECURSIVE DigitsNat(_)
DigitsNat(ds) ==
    IF ds = <<>> THEN 0
    ELSE DigitsNat(SubSeq(ds, 1, Len(ds) - 1)) * 10 + ds[Len(ds)]

(***************************************************************************)
(* decimal.Decimal.  A Decimal is [null, coef, exp]: value coef * 10^exp;  *)
(* null stands for Python's None in a nullable DecimalField.               *)
(***************************************************************************)
NoDecimal == [null |-> TRUE, coef |-> <<>>, exp |-> 0]

Dec(coef, exp) == [null |-> FALSE, coef |-> coef, exp |-> exp]

\* Decimal._round_half_even: +1 when the first `keep` digits round up.
RoundsUp(coef, keep) ==
    LET exactHalf == coef[keep + 1] = 5 /\ AllZeros(coef, keep + 2)
    IN  IF exactHalf /\ (keep = 0 \/ coef[keep] % 2 = 0)
        THEN FALSE
        ELSE coef[keep + 1] >= 5

\* The first `keep` digits of coef (keep < Len(coef)), rounded half-even.
RoundKeep(coef, keep) ==
    LET head == IF keep = 0 THEN <<0>> ELSE SubSeq(coef, 1, keep)
    IN  IF RoundsUp(coef, keep) THEN Inc(head) ELSE head

\* Decimal._fix: round the result of an operation to the context precision.
DecFix(d, prec) ==
    IF Len(d.coef) <= prec
    THEN d
    ELSE LET r == RoundKeep(d.coef, prec)
             e == d.exp + Len(d.coef) - prec
         IN  IF Len(r) > prec
             THEN Dec(SubSeq(r, 1, prec), e + 1)
             ELSE Dec(r, e)

\* Decimal(f) for a positive float f = n / 2^k: exactly n * 5^k * 10^-k.
DecFromFloat(n, k) ==
    Dec(NatDigits(n * Pow(5, k)), -k)

\* Decimal(str(f)): the text of a whole float ends in ".0".
DecFromText(n, k) ==
    IF k = 0 THEN Dec(NatDigits(n * 10), -1) ELSE DecFromFloat(n, k)

\* Trailing zeros of an exact quotient are dropped up to the ideal exponent.
RECURSIVE ToIdealExp(_, _, _)
ToIdealExp(coef, exp, ideal) ==
    IF exp < ideal /\ Len(coef) > 1 /\ coef[Len(coef)] = 0
    THEN ToIdealExp(SubSeq(coef, 1, Len(coef) - 1), exp + 1, ideal)
    ELSE Dec(coef, exp)

\* Decimal.__truediv__(a, b), b's coefficient small enough to divide by.
DecDiv(a, b) ==
    LET shift == Len(b.coef) - Len(a.coef) + DecimalPrec + 1
        exp   == a.exp - b.exp - shift
        dm    == DivMod(a.coef \o Zeros(shift), DigitsNat(b.coef))
        last  == dm.q[Len(dm.q)]
        ans   == IF dm.r # 0
                 THEN Dec(IF last % 5 = 0 THEN Inc(dm.q) ELSE dm.q, exp)
                 ELSE ToIdealExp(dm.q, exp, a.exp - b.exp)
    IN  DecFix(ans, DecimalPrec)

\* Faulty variant of DecMulMilesPerLy: the constant typed with one zero
\* less (588000000000).
DecMulOneZeroShort(a) ==
    DecFix(Dec(MulSmall(a.coef, MilesPerLyHead) \o Zeros(MilesPerLyZeros - 1),
               a.exp),
           DecimalPrec)

\* Decimal.__mul__(a, Decimal("5880000000000")).
DecMulMilesPerLy(a) ==
    DecFix(Dec(MulSmall(a.coef, MilesPerLyHead) \o Zeros(MilesPerLyZeros), a.exp),
           DecimalPrec)

\* Decimal._rescale(d, -places) with ROUND_HALF_EVEN.
Rescale(d, places) ==
    IF d.exp >= -places
    THEN Dec(d.coef \o Zeros(d.exp + places), -places)
    ELSE LET digits == Len(d.coef) + d.exp + places
             src    == IF digits < 0 THEN <<1>> ELSE d.coef
             keep   == IF digits < 0 THEN 0 ELSE digits
         IN  Dec(StripZeros(RoundKeep(src, keep)), -places)

\* Decimal.quantize raises InvalidOperation when the result would need more
\* than the context's precision (here the field's max_digits).
QuantizeRaises(d, places, maxDigits) ==
    \/ Len(d.coef) + d.exp + places > maxDigits
    \/ Len(Rescale(d, places).coef) > maxDigits

(***************************************************************************)
(* Python values: what a cell of a result table holds and what is handed   *)
(* to the distance calculation.  [t, n, k, s]: t is the kind; a float is   *)
(* n / 2^k; "numstr" is the text str(n / 2^k), e.g. "4.5"; "str" is the    *)
(* literal text s.                                                         *)
(***************************************************************************)
PyValue(t, n, k, s) == [n |-> n, k |-> k, t |-> t, s |-> s]

PyNone == PyValue("None", 0, 0, "")

Masked == PyValue("masked", 0, 0, "")

NaN == PyValue("nan", 0, 0, "")

PyFloat(n, k) == PyValue("float", n, k, "")

PyText(s) == PyValue("str", 0, 0, s)

\* Faulty variant of PyStr: the cell is stored as it is, without str().
PyStrOmitted(v) == v

\* str(v) as used for the JSON payload: a masked cell prints as "--".
PyStr(v) ==
    CASE v.t = "float"  -> PyValue("numstr", v.n, v.k, "")
      [] v.t = "masked" -> PyText("--")
      [] v.t = "None"   -> PyText("None")
      [] v.t = "nan"    -> PyText("nan")
      [] OTHER          -> v

\* float(v): [raises, val].  numpy turns a masked cell into nan.
ToFloat(v) ==
    CASE v.t = "float"  -> [raises |-> "none", val |-> v]
      [] v.t = "numstr" -> [raises |-> "none", val |-> PyFloat(v.n, v.k)]
      [] v.t = "masked" -> [raises |-> "none", val |-> NaN]
      [] v.t = "nan"    -> [raises |-> "none", val |-> NaN]
      [] v.t = "str"    -> [raises |-> "ValueError", val |-> PyNone]
      [] OTHER          -> [raises |-> "TypeError", val |-> PyNone]

\* f > 0 for a float f; every comparison with nan is false.
Positive(f) == f.t = "float" /\ f.n > 0

(***************************************************************************)
(* Observations.  api_payload is [null, data]: data is the dict as the     *)
(* sequence of its <<column, text>> items in insertion order.              *)
(***************************************************************************)
NoPayload == [null |-> TRUE, data |-> <<>>]

Payload(data) == [null |-> FALSE, data |-> data]

\* form.save(commit=False): the observation before enrichment.
NewObservation(otype, ident) ==
    [otype |-> otype, ident |-> ident, api_payload |-> NoPayload,
     distance_light_years |-> NoDecimal, distance_miles |-> NoDecimal]

\* ApiMixin.has_catalog_data: bool(self.api_payload).
has_catalog_data(obs) ==
    ~obs.api_payload.null /\ obs.api_payload.data # <<>>

\* Faulty variant of ClearDistances: distance_miles is not reset.
ClearLightYearsOnly(obs) ==
    [obs EXCEPT !.distance_light_years = NoDecimal]

\* self.distance_light_years = None; self.distance_miles = None
ClearDistances(obs) ==
    [obs EXCEPT !.distance_light_years = NoDecimal,
                !.distance_miles = NoDecimal]

\* Faulty variant of NotPositive: parallax_value < 0 lets zero through.
Negative(parallax_mas) ==
    parallax_mas.n < 0

\* parallax_value <= 0, for a float n / 2^k
NotPositive(parallax_mas) ==
    parallax_mas.n <= 0

\* ApiMixin.calculate_distances_from_parallax: [raises, obs, ly, miles].
calculate_distances_from_parallax(obs, parallax_mas) ==
    LET cleared == ClearDistances(obs)
        none    == [raises |-> "none", obs |-> cleared,
                    ly |-> NoDecimal, miles |-> NoDecimal]
    IN  IF ~has_catalog_data(obs) THEN none
        ELSE IF parallax_mas = PyNone \/ parallax_mas = PyText("") THEN none
        \* Decimal("abc") raises InvalidOperation, which is caught.
        ELSE IF parallax_mas.t \in {"str", "masked"} THEN none
        \* Decimal("NaN") <= 0 raises InvalidOperation outside the try.
        ELSE IF parallax_mas.t = "nan"
             THEN [none EXCEPT !.raises = "InvalidOperation"]
        ELSE IF NotPositive(parallax_mas) THEN none
        \* Decimal("3260.0") / Decimal(0) raises DivisionByZero.
        ELSE IF parallax_mas.n = 0
             THEN [none EXCEPT !.raises = "DivisionByZero"]
        ELSE LET parallax_value ==
                     IF parallax_mas.t = "numstr"
                     THEN DecFromText(parallax_mas.n, parallax_mas.k)
                     ELSE DecFromFloat(parallax_mas.n, parallax_mas.k)
                 ly == DecDiv(Dec(NatDigits(LyPerParallaxCoef), LyPerParallaxExp),
                              parallax_value)
                 miles == DecMulMilesPerLy(ly)
             IN  [raises |-> "none",
                  obs |-> [cleared EXCEPT !.distance_light_years = ly,
                                          !.distance_miles = miles],
                  ly |-> ly, miles |-> miles]

(***************************************************************************)
(* Persistence.  Model.save() writes each DecimalField through             *)
(* quantize(decimal_places) in a context of max_digits: the row holds the  *)
(* rounded value, and a value with too many digits makes save() raise      *)
(* before anything is written.                                             *)
(***************************************************************************)
FieldRaises(d, maxDigits) ==
    ~d.null /\ QuantizeRaises(d, DecimalPlaces, maxDigits)

SaveRaises(obs) ==
    \/ FieldRaises(obs.distance_light_years, LyMaxDigits)
    \/ FieldRaises(obs.distance_miles, MilesMaxDigits)

StoredDecimal(d) ==
    IF d.null THEN d ELSE Rescale(d, DecimalPlaces)

StoredRow(obs) ==
    [obs EXCEPT !.distance_light_years = StoredDecimal(@),
                !.distance_miles = StoredDecimal(@)]

(***************************************************************************)
(* Result tables of the catalog (Simbad) and ephemeris (Horizons)          *)
(* collaborators: [isNone, colnames, nrows, row], row holding one cell per *)
(* column when nrows = 1.  A lookup is [raises, table].                    *)
(***************************************************************************)
NoneTable == [isNone |-> TRUE, colnames |-> <<>>, nrows |-> 0, row |-> <<>>]

Table(colnames, nrows, row) ==
    [isNone |-> FALSE, colnames |-> colnames, nrows |-> nrows, row |-> row]

LookupError == [raises |-> TRUE, table |-> NoneTable]

LookupReturns(table) == [raises |-> FALSE, table |-> table]

\* col in table.colnames
HasColumn(table, col) ==
    \E i \in 1..Len(table.colnames) : table.colnames[i] = col

\* table[col][0]
Cell(table, col) ==
    table.row[CHOOSE i \in 1..Len(table.colnames) : table.colnames[i] = col]

\* Faulty variant of Normalize: the loop stops after the first column.
NormalizeFirstColumnOnly(table) ==
    [i \in 1..(IF table.colnames = <<>> THEN 0 ELSE 1) |->
        <<table.colnames[i], PyStr(table.row[i])>>]

\* for col in colnames: api_data[col] = str(table[col][0])
Normalize(table) ==
    [i \in 1..Len(table.colnames) |->
        <<table.colnames[i], PyStr(table.row[i])>>]

\* table[col][0] of a table without rows raises IndexError.
NormalizeRaises(table) ==
    table.nrows = 0 /\ table.colnames # <<>>

(***************************************************************************)
(* AddObservationView.post.  The outcome of one request:                   *)
(*   obs       the observation object when the handler ends                *)
(*   persisted whether a save() wrote it                                   *)
(*   saves     how many times save() was called                            *)
(*   log       the levels of the log entries, in order                     *)
(*   lookups   how many times a collaborator was queried                   *)
(*   escaped   the exception that left post, or "none"                     *)
(*   steps     the steps taken, in order                                   *)
(***************************************************************************)
Outcome(obs, persisted, saves, log, lookups, escaped, steps) ==
    [obs |-> obs, persisted |-> persisted, saves |-> saves, log |-> log,
     lookups |-> lookups, escaped |-> escaped, steps |-> steps]

\* observation.save() with no handler around it.
SaveOrEscape(obs, saves, log, lookups, steps) ==
    IF SaveRaises(obs)
    THEN Outcome(obs, FALSE, saves + 1, log, lookups, "InvalidOperation",
                 Append(steps, "save"))
    ELSE Outcome(obs, TRUE, saves + 1, log, lookups, "none",
                 Append(steps, "save"))

\* Faulty variant of ExceptHandler: the failure is logged with
\* logger.warning.
ExceptHandlerWarning(obs, saves, log, lookups, steps) ==
    SaveOrEscape(obs, saves, Append(log, "warning"), lookups, steps)

\* except Exception as e: logger.error(...); observation.save()
ExceptHandler(obs, saves, log, lookups, steps) ==
    SaveOrEscape(obs, saves, Append(log, "error"), lookups, steps)

\* observation.save() as the last statement of the try block.
SaveInTry(obs, log, lookups, steps) ==
    IF SaveRaises(obs)
    THEN ExceptHandler(obs, 1, log, lookups, Append(steps, "save"))
    ELSE Outcome(obs, TRUE, 1, log, lookups, "none", Append(steps, "save"))

\* The parallax block shared by the star and deep-sky branches:
\* [obs, log, steps] after it.
MeasureParallax(obs, table, log, steps) ==
    IF HasColumn(table, "plx_value") /\ Cell(table, "plx_value") # PyNone
    THEN LET parallax_mas == ToFloat(Cell(table, "plx_value"))
             measured == Append(steps, "measure")
         IN  IF parallax_mas.raises # "none"
             THEN [obs |-> obs, log |-> Append(log, "warning"),
                   steps |-> measured]
             ELSE IF Positive(parallax_mas.val)
             THEN [obs |-> calculate_distances_from_parallax(
                               obs, parallax_mas.val).obs,
                   log |-> log, steps |-> measured]
             ELSE [obs |-> obs, log |-> log, steps |-> measured]
    ELSE [obs |-> obs, log |-> log, steps |-> steps]

\* observation_type == "deep-sky"
PostDeepSky(observation, lookup) ==
    IF lookup.raises
    THEN ExceptHandler(observation, 0, <<>>, 1, <<"lookup">>)
    ELSE LET result_table == lookup.table
         IN  IF ~result_table.isNone /\ result_table.nrows > 0
             THEN LET withPayload ==
                          [observation EXCEPT
                              !.api_payload = Payload(Normalize(result_table))]
                      m == MeasureParallax(withPayload, result_table,
                                           <<"info">>, <<"lookup", "normalize">>)
                  IN  SaveInTry(m.obs, m.log, 1, m.steps)
             ELSE SaveInTry(observation, <<"warning">>, 1, <<"lookup">>)

\* Faulty variant of PostStar: api_payload is assigned before the loop
\* over the columns, so it is kept when the loop raises.
PostStarPayloadFirst(observation, lookup) ==
    IF lookup.raises
    THEN ExceptHandler(observation, 0, <<>>, 1, <<"lookup">>)
    ELSE LET result_table == lookup.table
         IN  IF ~result_table.isNone
             THEN IF NormalizeRaises(result_table)
                  THEN ExceptHandler(
                           [observation EXCEPT !.api_payload = Payload(<<>>)],
                           0, <<>>, 1, <<"lookup", "normalize">>)
                  ELSE LET withPayload ==
                               [observation EXCEPT
                                   !.api_payload =
                                       Payload(Normalize(result_table))]
                           m == MeasureParallax(withPayload, result_table,
                                                <<>>, <<"lookup", "normalize">>)
                       IN  SaveInTry(m.obs, m.log, 1, m.steps)
             ELSE SaveInTry(observation, <<>>, 1, <<"lookup">>)

\* observation_type == "star"
PostStar(observation, lookup) ==
    IF lookup.raises
    THEN ExceptHandler(observation, 0, <<>>, 1, <<"lookup">>)
    ELSE LET result_table == lookup.table
         IN  IF ~result_table.isNone
             THEN IF NormalizeRaises(result_table)
                  THEN ExceptHandler(observation, 0, <<>>, 1,
                                     <<"lookup", "normalize">>)
                  ELSE LET withPayload ==
                               [observation EXCEPT
                                   !.api_payload =
                                       Payload(Normalize(result_table))]
                           m == MeasureParallax(withPayload, result_table,
                                                <<>>, <<"lookup", "normalize">>)
                       IN  SaveInTry(m.obs, m.log, 1, m.steps)
             ELSE SaveInTry(observation, <<>>, 1, <<"lookup">>)

\* horizons_id_map.get(observation.celestial_body); 0 stands for None.
HorizonsId(celestial_body) ==
    CASE celestial_body = "sun"     -> 10
      [] celestial_body = "moon"    -> 301
      [] celestial_body = "mercury" -> 199
      [] celestial_body = "venus"   -> 299
      [] celestial_body = "mars"    -> 499
      [] celestial_body = "jupiter" -> 599
      [] celestial_body = "saturn"  -> 699
      [] celestial_body = "uranus"  -> 799
      [] celestial_body = "neptune" -> 899
      [] OTHER                      -> 0

\* observation_type == "solar-system"
PostSolarSystem(observation, lookup) ==
    IF observation.ident = "other"
    THEN SaveOrEscape(observation, 0, <<>>, 0, <<>>)
    ELSE IF HorizonsId(observation.ident) = 0
    THEN ExceptHandler(observation, 0, <<>>, 0, <<>>)
    ELSE IF lookup.raises
    THEN ExceptHandler(observation, 0, <<>>, 1, <<"lookup">>)
    ELSE LET eph == lookup.table
         IN  IF eph.isNone \/ NormalizeRaises(eph)
             THEN ExceptHandler(observation, 0, <<>>, 1,
                                <<"lookup", "normalize">>)
             ELSE LET withPayload ==
                          [observation EXCEPT
                              !.api_payload = Payload(Normalize(eph))]
                      normalized == <<"lookup", "normalize">>
                  IN  IF HasColumn(eph, "lighttime")
                         /\ Cell(eph, "lighttime") # PyNone
                      THEN LET lighttime_minutes ==
                                   ToFloat(Cell(eph, "lighttime"))
                               measured == Append(normalized, "measure")
                           IN  IF lighttime_minutes.raises # "none"
                               THEN SaveInTry(withPayload, <<"warning">>, 1,
                                              measured)
                               \* no class defines
                               \* calculate_distances_from_lighttime: the
                               \* call raises AttributeError.
                               ELSE IF Positive(lighttime_minutes.val)
                               THEN ExceptHandler(withPayload, 0, <<>>, 1,
                                                  measured)
                               ELSE SaveInTry(withPayload, <<>>, 1, measured)
                      ELSE SaveInTry(withPayload, <<>>, 1, normalized)

ObservationTypes == {"solar-system", "star", "deep-sky", "special-event"}

\* A request that saves nothing: unknown type or invalid form.
Rejected(otype, ident) ==
    Outcome(NewObservation(otype, ident), FALSE, 0, <<>>, 0, "none", <<>>)

\* Faulty variant of PostOutcome: the final else is missing, so a special
\* event falls into the star branch.
PostOutcomeSpecialAsStar(otype, ident, valid, lookup) ==
    IF otype \notin ObservationTypes THEN Rejected(otype, ident)
    ELSE IF ~valid THEN Rejected(otype, ident)
    ELSE LET observation == NewObservation(otype, ident)
         IN  CASE otype = "deep-sky"     -> PostDeepSky(observation, lookup)
               [] otype = "solar-system" -> PostSolarSystem(observation, lookup)
               [] OTHER                  -> PostStar(observation, lookup)

\* Faulty variant of PostOutcome: the form is validated after the
\* enrichment, just before the save.
PostOutcomeValidatedLate(otype, ident, valid, lookup) ==
    IF otype \notin ObservationTypes THEN Rejected(otype, ident)
    ELSE LET observation == NewObservation(otype, ident)
             run == CASE otype = "deep-sky" -> PostDeepSky(observation, lookup)
                      [] otype = "star" -> PostStar(observation, lookup)
                      [] otype = "solar-system" ->
                             PostSolarSystem(observation, lookup)
                      [] OTHER -> SaveOrEscape(observation, 0, <<>>, 0, <<>>)
         IN  IF valid THEN run
             ELSE Outcome(run.obs, FALSE, 0, run.log, run.lookups, "none",
                          run.steps)

\* AddObservationView.post for one request.
PostOutcome(otype, ident, valid, lookup) ==
    IF otype \notin ObservationTypes THEN Rejected(otype, ident)
    ELSE IF ~valid THEN Rejected(otype, ident)
    ELSE LET observation == NewObservation(otype, ident)
         IN  CASE otype = "deep-sky"     -> PostDeepSky(observation, lookup)
               [] otype = "star"         -> PostStar(observation, lookup)
               [] otype = "solar-system" -> PostSolarSystem(observation, lookup)
               [] OTHER -> SaveOrEscape(observation, 0, <<>>, 0, <<>>)

(***************************************************************************)
(* The calculate_solar_system_distances command.                           *)
(***************************************************************************)
\* "lighttime" in observation.api_payload
PayloadHas(payload, key) ==
    \E i \in 1..Len(payload.data) : payload.data[i][1] = key

\* observation.api_payload["lighttime"]
PayloadGet(payload, key) ==
    payload.data[CHOOSE i \in 1..Len(payload.data) : payload.data[i][1] = key][2]

\* Faulty variant of BatchSelects: SolarSystem.objects.all().
BatchSelectsEverySolarSystem(row) ==
    row.otype = "solar-system"

\* SolarSystem.objects.filter(api_payload__isnull=False,
\*                            distance_light_years__isnull=True)
BatchSelects(row) ==
    /\ row.otype = "solar-system"
    /\ ~row.api_payload.null
    /\ row.distance_light_years.null

\* The for loop of Command.handle from row i on; acc is
\* [escaped, visited, warnings, updated_count].  The only call that could
\* update a row raises AttributeError, which handle does not catch.
RECURSIVE BatchScan(_, _, _)
BatchScan(rows, i, acc) ==
    IF i > Len(rows) THEN acc
    ELSE IF ~BatchSelects(rows[i]) THEN BatchScan(rows, i + 1, acc)
    ELSE LET observation == rows[i]
             seen == [acc EXCEPT !.visited = Append(@, i)]
         IN  IF has_catalog_data(observation)
                /\ PayloadHas(observation.api_payload, "lighttime")
             THEN LET lighttime_minutes ==
                          ToFloat(PayloadGet(observation.api_payload, "lighttime"))
                  IN  IF lighttime_minutes.raises # "none"
                      THEN BatchScan(rows, i + 1,
                                     [seen EXCEPT !.warnings = @ + 1])
                      ELSE IF Positive(lighttime_minutes.val)
                      THEN [seen EXCEPT !.escaped = "AttributeError"]
                      ELSE BatchScan(rows, i + 1, seen)
             ELSE BatchScan(rows, i + 1, seen)

\* Command.handle over the persisted rows.
BatchOutcome(rows) ==
    BatchScan(rows, 1, [escaped |-> "none", visited |-> <<>>,
                        warnings |-> 0, updated_count |-> 0])

(***************************************************************************)
(* Inputs of the model.                                                    *)
(***************************************************************************)
\* Cells a measurement column can hold: None, a masked cell, text, zero, a
\* negative and positive floats (3, 4.5, and 1/64 whose distance in miles
\* needs 21 digits).
MeasureCells ==
    {PyNone, Masked, PyText("abc"), PyFloat(0, 0), PyFloat(-5, 0),
     PyFloat(3, 0), PyFloat(9, 1), PyFloat(1, 6)}

IdColumn(otype) ==
    IF otype = "solar-system" THEN "targetname" ELSE "main_id"

MeasureColumn(otype) ==
    IF otype = "solar-system" THEN "lighttime" ELSE "plx_value"

Tables(otype) ==
    {NoneTable,
     Table(<<IdColumn(otype), MeasureColumn(otype)>>, 0, <<>>),
     Table(<<IdColumn(otype)>>, 1, <<PyText("x")>>)}
    \cup {Table(<<IdColumn(otype), MeasureColumn(otype)>>, 1, <<PyText("x"), v>>) :
             v \in MeasureCells}

\* What the collaborator of a request type can answer; special events and
\* unknown types have no collaborator.
Lookups(otype) ==
    IF otype \in {"solar-system", "star", "deep-sky"}
    THEN {LookupError} \cup {LookupReturns(t) : t \in Tables(otype)}
    ELSE {LookupError}

RequestTypes == ObservationTypes \cup {"bogus"}

Idents(otype) ==
    CASE otype = "solar-system" -> {"mars", "other"}
      [] otype = "star"         -> {"Mira"}
      [] otype = "deep-sky"     -> {"M42"}
      [] OTHER                  -> {"comet"}

\* Arguments the distance calculation is called with.
CalcArguments ==
    {PyNone, PyText(""), PyText("abc"), NaN, PyFloat(0, 0), PyFloat(-5, 0),
     PyFloat(3, 0), PyFloat(9, 1), PyFloat(1537, 1), PyFloat(1, 6),
     PyValue("numstr", 3, 0, ""), PyValue("numstr", 9, 1, "")}

\* Observations the distance calculation is called on.
CalcObservations ==
    {[NewObservation(otype, "x") EXCEPT !.api_payload = p,
                                       !.distance_light_years = d,
                                       !.distance_miles = d] :
        otype \in {"star", "deep-sky"},
        p \in {NoPayload, Payload(<<>>), Payload(<<<<"main_id", PyText("x")>>>>)},
        d \in {NoDecimal, Dec(<<4, 2, 4>>, -2)}}

(***************************************************************************)
(* ObservingSession.  Times are whole ticks, DayLen ticks to a day; Now is *)
(* timezone.now().  A session object is                                    *)
(*   pk                 its row number, 0 while it was never written       *)
(*   user               the primary key of its user                        *)
(*   datetime_start_ut  a tick                                             *)
(*   datetime_end_ut    <<>> for None, <<t>> for tick t                    *)
(*   slug               the slug as the sequence of its "-"-separated      *)
(*                      parts; <<>> is the empty slug (None and "" alike)  *)
(***************************************************************************)
\* Ticks of one day.
DayLen == 2

\* timezone.now(): the last tick of day 1.
Now == 3

\* attempts_remaining = 5
MaxAttempts == 5

NoSlug == <<>>

NoEnd == <<>>

DigitText == <<"0", "1", "2", "3", "4", "5", "6", "7", "8", "9">>

\* str(n) for a natural n.
RECURSIVE NatText(_)
NatText(n) ==
    IF n < 10 THEN DigitText[n + 1]
    ELSE NatText(n \div 10) \o DigitText[(n % 10) + 1]

\* datetime_start_ut.strftime("%Y-%m-%d"), as its three parts; day 0 is
\* 2024-01-01.
Strftime(t) ==
    <<"2024", "01", "0" \o NatText(1 + (t \div DayLen))>>

\* slugify(str(self.user.pk)) of an integer primary key.
SlugifyPk(user) == NatText(user)

\* base_slug = f"{user_pk}-{date_part}"
BaseSlug(session) ==
    <<SlugifyPk(session.user)>> \o Strftime(session.datetime_start_ut)

\* Faulty variant of Suffixed: the suffixes are counted from 0.
SuffixedFromZero(base_slug, suffix) ==
    Append(base_slug, NatText(suffix - 1))

\* f"{base_slug}-{suffix}"
Suffixed(base_slug, suffix) ==
    Append(base_slug, NatText(suffix))

\* Faulty variant of CleanRaises: an end equal to the start is accepted.
CleanRaisesEndBeforeOnly(session) ==
    \/ session.datetime_start_ut > Now
    \/ /\ session.datetime_end_ut # NoEnd
       /\ session.datetime_end_ut[1] < session.datetime_start_ut

\* Faulty variant of CleanRaises: the start is not compared with now.
CleanRaisesFutureAllowed(session) ==
    /\ session.datetime_end_ut # NoEnd
    /\ session.datetime_end_ut[1] <= session.datetime_start_ut

\* ObservingSession.clean raises ValidationError.
CleanRaises(session) ==
    \/ session.datetime_start_ut > Now
    \/ /\ session.datetime_end_ut # NoEnd
       /\ session.datetime_end_ut[1] <= session.datetime_start_ut

\* queryset: ObservingSession.objects.all(), without the row of pk when
\* pk is set; as the set of row numbers.
OtherRows(rows, pk) ==
    {i \in 1..Len(rows) : i # pk}

\* queryset.filter(slug=candidate).exists()
SlugExists(rows, pk, candidate) ==
    \E i \in OtherRows(rows, pk) : rows[i].slug = candidate

(***************************************************************************)
(* State: the persisted observations and the last operation with its       *)
(* outcome.                                                                *)
(***************************************************************************)
\* sessions: the ObservingSession table, row number = primary key.
\* savers: the ObservingSession.save calls in flight, one per worker.
VARIABLES db, last, sessions, savers

vars == <<db, last, sessions, savers>>

\* Workers that run ObservingSession.save concurrently.
Savers == {"a", "b"}

\* A session object in memory.
Session(pk, user, datetime_start_ut, datetime_end_ut, slug) ==
    [user |-> user, datetime_start_ut |-> datetime_start_ut,
     datetime_end_ut |-> datetime_end_ut, pk |-> pk, slug |-> slug]

\* A row of the table: the fields, and what they were when it was inserted.
SessionRow(self, born, first_slug) ==
    [user |-> self.user, datetime_start_ut |-> self.datetime_start_ut,
     datetime_end_ut |-> self.datetime_end_ut, slug |-> self.slug,
     born |-> born, first_slug |-> first_slug]

\* One call of save: where it is (pc), its object (self), its locals
\* (attempts_remaining; candidate and suffix of generate_slug), the
\* exception that left it (raised), and how many writes it tried and how
\* many of them failed.
Saver(pc, self, attempts_remaining, candidate, suffix, raised, writes, failed) ==
    [suffix |-> suffix, candidate |-> candidate, self |-> self, pc |-> pc,
     attempts_remaining |-> attempts_remaining, raised |-> raised,
     writes |-> writes, failed |-> failed]

IdleSaver ==
    Saver("idle", Session(0, 0, 0, NoEnd, NoSlug), 0, NoSlug, 0, "none", 0, 0)

Init ==
    /\ db = <<>>
    /\ last = [op |-> "none"]
    /\ sessions = <<>>
    /\ savers = [p \in Savers |-> IdleSaver]

\* One request to AddObservationView.post.
Post ==
    \E otype \in RequestTypes, valid \in BOOLEAN :
      \E ident \in Idents(otype),
         lookup \in (IF valid THEN Lookups(otype) ELSE {LookupError}) :
        LET res == PostOutcome(otype, ident, valid, lookup)
        IN  /\ res.persisted => Len(db) < MaxObs
            /\ db' = IF res.persisted THEN Append(db, StoredRow(res.obs)) ELSE db
            /\ last' = [otype |-> otype, ident |-> ident,
                        lookup |-> IF res.lookups > 0 THEN lookup ELSE LookupError,
                        valid |-> valid, op |-> "post", res |-> res]
            /\ UNCHANGED <<sessions, savers>>

\* One run of the calculate_solar_system_distances command.
Batch ==
    /\ db' = db
    /\ last' = [op |-> "batch", res |-> BatchOutcome(db)]
    /\ UNCHANGED <<sessions, savers>>

\* One call of calculate_distances_from_parallax on an observation object.
\* The method reads its object and its argument only, so it is explored
\* from the empty store.
Calc ==
    \E obs \in CalcObservations, arg \in CalcArguments :
        /\ db = <<>>
        /\ db' = db
        /\ last' = [op |-> "calc",
                    res |-> calculate_distances_from_parallax(obs, arg),
                    arg |-> arg, before |-> obs]
        /\ UNCHANGED <<sessions, savers>>

Next == Post \/ Batch \/ Calc

Spec == Init /\ [][Next]_vars

(***************************************************************************)
(* ObservingSession.save, one action per statement that reads or writes    *)
(* the table, so that concurrent calls interleave between them.            *)
(***************************************************************************)
\* What a session form can submit: <<user, start, end>>.
SessionForms ==
    {<<1, 1, NoEnd>>, <<1, 2, <<3>>>>, <<2, 1, NoEnd>>,
     <<1, 4, NoEnd>>, <<1, 1, <<1>>>>, <<1, 2, <<1>>>>}

\* What an edit can change a session's times to: <<start, end>>.
SessionEdits ==
    {<<1, NoEnd>>, <<2, NoEnd>>, <<4, NoEnd>>, <<2, <<2>>>>}

SetSaver(p, saver) ==
    /\ savers' = [savers EXCEPT ![p] = saver]
    /\ UNCHANGED <<db, last>>

\* The forms of sessions created by two users for one date.
RaceForms ==
    {<<1, 1, NoEnd>>, <<2, 1, NoEnd>>}

\* save() is called on a new session object: attempts_remaining = 5.
Create(p, forms, maxRows) ==
    \E form \in forms :
        /\ savers[p].pc = "idle"
        /\ Len(sessions) < maxRows
        /\ SetSaver(p, Saver("clean1",
                             Session(0, form[1], form[2], form[3], NoSlug),
                             MaxAttempts, NoSlug, 0, "none", 0, 0))
        /\ UNCHANGED sessions

BeginCreate(p) == Create(p, SessionForms, MaxSessions)

BeginRace(p) == Create(p, RaceForms, MaxRaceRows)

\* save() is called on a persisted session whose times were edited.
BeginUpdate(p) ==
    \E pk \in 1..Len(sessions), edit \in SessionEdits :
        /\ savers[p].pc = "idle"
        /\ SetSaver(p, Saver("clean1",
                             Session(pk, sessions[pk].user, edit[1], edit[2],
                                     sessions[pk].slug),
                             MaxAttempts, NoSlug, 0, "none", 0, 0))
        /\ UNCHANGED sessions

\* self.full_clean(exclude=['slug'])
FullCleanExcludeSlug(p) ==
    LET s == savers[p]
    IN  /\ s.pc = "clean1"
        /\ s.attempts_remaining > 0
        /\ IF CleanRaises(s.self)
           THEN SetSaver(p, [s EXCEPT !.pc = "raised",
                                      !.raised = "ValidationError"])
           ELSE SetSaver(p, [s EXCEPT !.pc = "generate"])
        /\ UNCHANGED sessions

\* Faulty variant of HasSlug: the guard of generate_slug is missing.
HasSlugNever(session) ==
    FALSE

\* if self.slug: return None
HasSlug(session) ==
    session.slug # NoSlug

\* generate_slug up to the while loop: candidate = base_slug; suffix = 1
GenerateSlugStart(p) ==
    LET s == savers[p]
    IN  /\ s.pc = "generate"
        /\ IF HasSlug(s.self)
           THEN SetSaver(p, [s EXCEPT !.pc = "clean2"])
           ELSE SetSaver(p, [s EXCEPT !.pc = "probe",
                                      !.candidate = BaseSlug(s.self),
                                      !.suffix = 1])
        /\ UNCHANGED sessions

\* One test of while queryset.filter(slug=candidate).exists(), with the
\* loop body or self.slug = candidate after it.
GenerateSlugProbe(p) ==
    LET s == savers[p]
    IN  /\ s.pc = "probe"
        /\ IF SlugExists(sessions, s.self.pk, s.candidate)
           THEN SetSaver(p, [s EXCEPT
                    !.candidate = Suffixed(BaseSlug(s.self), s.suffix),
                    !.suffix = s.suffix + 1])
           ELSE SetSaver(p, [s EXCEPT !.pc = "clean2",
                                      !.self.slug = s.candidate,
                                      !.candidate = NoSlug,
                                      !.suffix = 0])
        /\ UNCHANGED sessions

\* self.full_clean(): clean() again and validate_unique on slug, which
\* asks the table whether another row has the slug.
FullClean(p) ==
    LET s == savers[p]
    IN  /\ s.pc = "clean2"
        /\ IF \/ CleanRaises(s.self)
              \/ SlugExists(sessions, s.self.pk, s.self.slug)
           THEN SetSaver(p, [s EXCEPT !.pc = "raised",
                                      !.raised = "ValidationError"])
           ELSE SetSaver(p, [s EXCEPT !.pc = "write"])
        /\ UNCHANGED sessions

\* Faulty variant of Exhausted: gives up one attempt early.
ExhaustedEarly(attempts_remaining) ==
    attempts_remaining <= 1

\* if not attempts_remaining: raise
Exhausted(attempts_remaining) ==
    attempts_remaining = 0

\* Faulty variant of UniqueViolation: the slug column is not unique.
UniqueViolationNever(rows, session) ==
    FALSE

\* slug = models.SlugField(unique=True): the write is refused when another
\* row has the slug.
UniqueViolation(rows, session) ==
    SlugExists(rows, session.pk, session.slug)

\* super().save(): INSERT or UPDATE, and the except IntegrityError branch.
Write(p) ==
    LET s == savers[p]
    IN  /\ s.pc = "write"
        /\ IF UniqueViolation(sessions, s.self)
           THEN LET left == s.attempts_remaining - 1
                    f == [s EXCEPT !.attempts_remaining = left,
                                   !.writes = s.writes + 1,
                                   !.failed = s.failed + 1]
                IN  /\ IF Exhausted(left)
                       THEN SetSaver(p, [f EXCEPT !.pc = "raised",
                                                  !.raised = "IntegrityError"])
                       ELSE SetSaver(p, [f EXCEPT !.pc = "clean1",
                                                  !.self.slug = NoSlug])
                    /\ UNCHANGED sessions
           ELSE IF s.self.pk = 0
           THEN /\ sessions' = Append(sessions,
                                      SessionRow(s.self,
                                                 s.self.datetime_start_ut,
                                                 s.self.slug))
                /\ SetSaver(p, [s EXCEPT !.pc = "done",
                                         !.self.pk = Len(sessions) + 1,
                                         !.writes = s.writes + 1])
           ELSE /\ sessions' = [sessions EXCEPT ![s.self.pk] =
                                   SessionRow(s.self, @.born, @.first_slug)]
                /\ SetSaver(p, [s EXCEPT !.pc = "done",
                                         !.writes = s.writes + 1])

\* save() has returned or raised; the worker takes the next request.
Return(p) ==
    /\ savers[p].pc \in {"done", "raised"}
    /\ SetSaver(p, IdleSaver)
    /\ UNCHANGED sessions

SessionNext ==
    \E p \in Savers :
        \/ BeginCreate(p)
        \/ BeginUpdate(p)
        \/ FullCleanExcludeSlug(p)
        \/ GenerateSlugStart(p)
        \/ GenerateSlugProbe(p)
        \/ FullClean(p)
        \/ Write(p)
        \/ Return(p)

SessionSpec == Init /\ [][SessionNext]_vars

\* Creations for one date only, as many as the retry budget needs.
RaceNext ==
    \E p \in Savers :
        \/ BeginRace(p)
        \/ FullCleanExcludeSlug(p)
        \/ GenerateSlugStart(p)
        \/ GenerateSlugProbe(p)
        \/ FullClean(p)
        \/ Write(p)
        \/ Return(p)

RaceSpec == Init /\ [][RaceNext]_vars

(***************************************************************************)
(* The get_object_type template filter.  None is PyNone, a string is a     *)
(* text value.                                                             *)
(***************************************************************************)
\* object_type_mapping, as its (code, description) entries.
ObjectTypeMapping ==
    <<
      <<"*", "Star">>,
      <<"**", "Double or Multiple Star">>,
      <<"PM*", "High Proper Motion Star">>,
      <<"HV*", "High Velocity Star">>,
      <<"V*", "Variable Star">>,
      <<"Ir*", "Irregular Variable Star">>,
      <<"Or*", "Variable Star in Orion Nebula">>,
      <<"RI*", "Variable Star with Rapid Variations">>,
      <<"Er*", "Eruptive Variable Star">>,
      <<"Fl*", "Flare Star">>,
      <<"FU*", "FU Orionis Star">>,
      <<"RC*", "Variable Star of R CrB Type">>,
      <<"RC?", "Variable Star of R CrB Type (Candidate)">>,
      <<"Ro*", "Rotationally Variable Star">>,
      <<"a2*", "Variable Star of Alpha2 CVn Type">>,
      <<"Psr", "Pulsar">>,
      <<"BY*", "Variable Star of BY Dra Type">>,
      <<"RS*", "Variable Star of RS CVn Type">>,
      <<"Pu*", "Pulsating Variable Star">>,
      <<"RR*", "Variable Star of RR Lyr Type">>,
      <<"Ce*", "Cepheid Variable Star">>,
      <<"dS*", "Delta Scuti Variable Star">>,
      <<"RV*", "Variable Star of RV Tau Type">>,
      <<"WV*", "Variable Star of W Vir Type">>,
      <<"bC*", "Variable Star of Beta Cep Type">>,
      <<"cC*", "Classical Cepheid Variable Star">>,
      <<"gD*", "Gamma Doradus Variable Star">>,
      <<"SX*", "Variable Star of SX Phe Type">>,
      <<"LP*", "Long Period Variable Star">>,
      <<"Mi*", "Variable Star of Mira Cet Type">>,
      <<"sr*", "Semi-Regular Variable Star">>,
      <<"S*", "S Star">>,
      <<"s*r", "Semi-Regular Variable Star">>,
      <<"s*b", "Semi-Regular Variable Star (subtype B)">>,
      <<"AB*", "Asymptotic Giant Branch Star">>,
      <<"C*", "Carbon Star">>,
      <<"N*", "Wolf-Rayet Star">>,
      <<"WD*", "White Dwarf">>,
      <<"ZZ*", "Variable White Dwarf of ZZ Cet Type">>,
      <<"BD*", "Brown Dwarf">>,
      <<"LM*", "Low Mass Star">>,
      <<"YS*", "Young Stellar Object">>,
      <<"pA*", "Post-AGB Star">>,
      <<"WU*", "W UMa-type Eclipsing Binary">>,
      <<"Ae*", "Herbig Ae/Be Star">>,
      <<"Em*", "Emission Line Star">>,
      <<"Be*", "Be Star">>,
      <<"BS*", "Blue Straggler Star">>,
      <<"RG*", "Red Giant Branch Star">>,
      <<"sg*", "Evolved Supergiant Star">>,
      <<"s*y", "Symbiotic Star">>,
      <<"HS*", "Hot Subdwarf">>,
      <<"WR*", "Wolf-Rayet Star">>,
      <<"of*", "Of Star">>,
      <<"NO*", "Nova">>,
      <<"NL*", "Nova-like Star">>,
      <<"DN*", "Dwarf Nova">>,
      <<"XB*", "X-ray Binary">>,
      <<"LXB", "Low Mass X-ray Binary">>,
      <<"HXB", "High Mass X-ray Binary">>,
      <<"As*", "Association of Stars">>,
      <<"St*", "Stellar Stream">>,
      <<"MGr", "Moving Group">>,
      <<"EB*", "Eclipsing Binary">>,
      <<"Al*", "Algol-type Eclipsing Binary">>,
      <<"bL*", "Beta Lyrae-type Eclipsing Binary">>,
      <<"CV*", "Cataclysmic Variable Star">>,
      <<"Pec*", "Peculiar Star">>,
      <<"Cl*", "Star Cluster">>,
      <<"GlC", "Globular Cluster">>,
      <<"OpC", "Open Cluster">>,
      <<"Neb", "Nebula">>,
      <<"PN", "Planetary Nebula">>,
      <<"SNR", "Supernova Remnant">>,
      <<"RNe", "Reflection Nebula">>,
      <<"ENe", "Emission Nebula">>,
      <<"DNe", "Dark Nebula">>,
      <<"HII", "HII Region">>,
      <<"MoC", "Molecular Cloud">>,
      <<"glb", "Globule">>,
      <<"cor", "Dense Core">>,
      <<"SFR", "Star Forming Region">>,
      <<"BiC", "Bright Cloud">>,
      <<"G", "Galaxy">>,
      <<"GiC", "Galaxy in Cluster">>,
      <<"GiG", "Galaxy in Group">>,
      <<"GPa", "Galaxy Pair">>,
      <<"GTr", "Galaxy Triple">>,
      <<"CGG", "Compact Group of Galaxies">>,
      <<"PaG", "Pair of Galaxies">>,
      <<"SpG", "Spiral Galaxy">>,
      <<"S0G", "Lenticular Galaxy">>,
      <<"EG", "Elliptical Galaxy">>,
      <<"IG", "Irregular Galaxy">>,
      <<"SBG", "Barred Spiral Galaxy">>,
      <<"BCG", "Blue Compact Galaxy">>,
      <<"LSB", "Low Surface Brightness Galaxy">>,
      <<"H2G", "HII Galaxy">>,
      <<"EmG", "Emission-line Galaxy">>,
      <<"SyG", "Seyfert Galaxy">>,
      <<"Sy1", "Seyfert 1 Galaxy">>,
      <<"Sy2", "Seyfert 2 Galaxy">>,
      <<"rG", "Radio Galaxy">>,
      <<"AG*", "Active Galaxy Nucleus">>,
      <<"QSO", "Quasar">>,
      <<"Bz*", "Blazar">>,
      <<"BLL", "BL Lac Object">>,
      <<"OVV", "Optically Violently Variable Object">>,
      <<"Lys", "LINER-type Active Galaxy Nucleus">>,
      <<"Sun", "Sun">>,
      <<"Pla", "Planet">>,
      <<"DPl", "Dwarf Planet">>,
      <<"Moo", "Moon">>,
      <<"sat", "Satellite">>,
      <<"Ast", "Asteroid">>,
      <<"Com", "Comet">>,
      <<"MeT", "Meteor">>,
      <<"err", "Not an Object (Error, Artefact, ...)">>,
      <<"?", "Object of Unknown Nature">>,
      <<"mul", "Composite Object">>,
      <<"reg", "Region Defined in the Sky">>,
      <<"vid", "Underdense Region of the Universe">>,
      <<"SCG", "Supercluster of Galaxies">>,
      <<"ClG", "Cluster of Galaxies">>,
      <<"GrG", "Group of Galaxies">>,
      <<"CGb", "Compact Group Member">>,
      <<"LeI", "Gravitationally Lensed Image">>,
      <<"LeG", "Gravitationally Lensed Image of a Galaxy">>,
      <<"LeQ", "Gravitationally Lensed Image of a Quasar">>,
      <<"LyA", "Lyman Alpha Emitter">>,
      <<"SN*", "SuperNova">>,
      <<"SNI", "Type I Supernova">>,
      <<"SNII", "Type II Supernova">>,
      <<"gLe", "Gravitational Lens">>,
      <<"gLS", "Gravitational Lens System">>,
      <<"GWE", "Gravitational Wave Event">>,
      <<"..?", "Possible Gravitational Wave Event">>,
      <<"TDE", "Tidal Disruption Event">>,
      <<"ISM", "Interstellar Medium">>,
      <<"PoC", "Part of Cloud">>,
      <<"PoG", "Part of Galaxy">>,
      <<"Rad", "Radio Source">>,
      <<"mR", "Metric Radio Source">>,
      <<"cm", "Centimetric Radio Source">>,
      <<"mm", "Millimetric Radio Source">>,
      <<"smm", "Sub-Millimetric Source">>,
      <<"HI", "HI (21cm) Source">>,
      <<"rB", "Radio Burst">>,
      <<"Mas", "Maser">>,
      <<"IR", "Infra-Red Source">>,
      <<"FIR", "Far-Infrared Source">>,
      <<"NIR", "Near-Infrared Source">>,
      <<"MIR", "Mid-Infrared Source">>,
      <<"THz", "TeraHertz Source">>,
      <<"blu", "Blue Object">>,
      <<"UV", "UV-emission Source">>,
      <<"X", "X-ray Source">>,
      <<"ULX", "Ultra-Luminous X-ray Source">>,
      <<"gam", "Gamma-ray Source">>,
      <<"gB", "Gamma-ray Burst">>,
      <<"grv", "Gravitational Source">>,
      <<"Lev", "(Micro)Lensing Event">>,
      <<"IntG", "Interacting Galaxies">>,
      <<"BH", "Black Hole">>
    >>

\* object_type_mapping.get(otype, default)
MappingGet(otype, default) ==
    IF \E i \in 1..Len(ObjectTypeMapping) : ObjectTypeMapping[i][1] = otype
    THEN ObjectTypeMapping[
             CHOOSE i \in 1..Len(ObjectTypeMapping) :
                 ObjectTypeMapping[i][1] = otype][2]
    ELSE default

\* f"Unknown ({otype})"
UnknownLabel(otype) == "Unknown (" \o otype \o ")"

\* api_payload.get("otype")
GetOtype(api_payload) ==
    IF PayloadHas(api_payload, "otype")
    THEN PayloadGet(api_payload, "otype")
    ELSE PyNone

\* Faulty variant of get_object_type: the lookup has no default.
get_object_type_without_default(api_payload) ==
    IF api_payload.null \/ api_payload.data = <<>> THEN PyNone
    ELSE LET otype == GetOtype(api_payload)
         IN  IF otype = PyNone \/ otype = PyText("") THEN PyNone
             ELSE IF MappingGet(otype.s, "") = "" THEN PyNone
             ELSE PyText(MappingGet(otype.s, ""))

\* get_object_type(api_payload), for a payload whose values are strings:
\* None for no payload or an empty one, and for a missing or empty code.
get_object_type(api_payload) ==
    IF api_payload.null \/ api_payload.data = <<>> THEN PyNone
    ELSE LET otype == GetOtype(api_payload)
         IN  IF otype = PyNone \/ otype = PyText("") THEN PyNone
             ELSE PyText(MappingGet(otype.s, UnknownLabel(otype.s)))

\* Codes the filter is applied to: every code of the table, codes that are
\* not in it (one differing from a code of the table in case only, the
\* rendering of a masked cell) and the empty string.
OtypeCodes ==
    {ObjectTypeMapping[i][1] : i \in 1..Len(ObjectTypeMapping)}
        \cup {"XYZ_UNKNOWN", "qso", "--", ""}

\* Payloads the filter is applied to.
FilterPayloads ==
    {NoPayload, Payload(<<>>), Payload(<<<<"main_id", PyText("x")>>>>)}
        \cup {Payload(<<<<"main_id", PyText("x")>>, <<"otype", PyText(code)>>>>) :
                 code \in OtypeCodes}

\* A template applies the filter to the payload of an observation.
ApplyFilter ==
    \E api_payload \in FilterPayloads :
        /\ last' = [op |-> "filter", res |-> get_object_type(api_payload),
                    arg |-> api_payload]
        /\ UNCHANGED <<db, sessions, savers>>

FilterNext == ApplyFilter

FilterSpec == Init /\ [][FilterNext]_vars

(***************************************************************************)
(* Observations with their session, as the add, detail and delete views    *)
(* see them.  In OwnerSpec a row of db is                                  *)
(*   obs               the observation as AddObservationView.post stored   *)
(*                     it                                                  *)
(*   session           the pk of its session                               *)
(*   additional_notes  a field the update forms expose                     *)
(*   live              FALSE once the row was deleted; ids are not reused  *)
(* and the row number is the id of the observation.                        *)
(***************************************************************************)
MaxOwned == 2

MaxEntries == 1

Users == {1, 2}

Entry(obs, session, additional_notes, live) ==
    [obs |-> obs, session |-> session,
     additional_notes |-> additional_notes, live |-> live]

\* Two users create sessions for one date.
BeginOwned(p) == Create(p, RaceForms, MaxOwned)

\* ObservingSession.objects.filter(user=request.user), as row numbers.
SessionsOf(user) ==
    {pk \in 1..Len(sessions) : sessions[pk].user = user}

\* The catalog answers a star lookup with a row of parallax 3 mas.
OwnedLookup ==
    LookupReturns(Table(<<"main_id", "plx_value">>, 1,
                        <<PyText("x"), PyFloat(3, 0)>>))

\* AddObservationView.post by `user`: the session field accepts the user's
\* sessions only, so the form is invalid for any other session.
AddObservation(user) ==
    \E otype \in {"star", "special-event"}, session \in 1..(MaxOwned + 1),
       fields_valid \in BOOLEAN :
        LET valid == fields_valid /\ session \in SessionsOf(user)
            ident == CHOOSE i \in Idents(otype) : TRUE
            out == PostOutcome(otype, ident, valid, OwnedLookup)
        IN  /\ Len(db) < MaxEntries
            /\ db' = IF out.persisted
                     THEN Append(db, Entry(StoredRow(out.obs), session, "", TRUE))
                     ELSE db
            /\ last' = [user |-> user, op |-> "add", id |-> session,
                        ok |-> out.persisted]
            /\ UNCHANGED <<sessions, savers>>

\* The observation type a key of the detail view's branches names.
DetailType(obs_type) ==
    CASE obs_type = "solar_system"  -> "solar-system"
      [] obs_type = "star"          -> "star"
      [] obs_type = "deep_sky"      -> "deep-sky"
      [] obs_type = "special_event" -> "special-event"
      [] OTHER                      -> "none"

\* Faulty variant of Owns: the lookup has no session__user filter.
OwnsAny(user, obs_id) == TRUE

\* session__user=request.user for the row obs_id.
Owns(user, obs_id) ==
    /\ db[obs_id].session \in 1..Len(sessions)
    /\ sessions[db[obs_id].session].user = user

\* Model.objects.get(id=obs_id, session__user=user) finds a row.
Found(user, otype, obs_id) ==
    /\ obs_id \in 1..Len(db)
    /\ db[obs_id].live
    /\ db[obs_id].obs.otype = otype
    /\ Owns(user, obs_id)

\* ObservationDetailView.get_observation returns a row and not None.
get_observation(user, obs_id, obs_type) ==
    /\ DetailType(obs_type) # "none"
    /\ Found(user, DetailType(obs_type), obs_id)

\* Faulty variant of FormSave: the update form has the session field too.
FormSaveWithSession(entry, additional_notes, session) ==
    [entry EXCEPT !.additional_notes = additional_notes,
                  !.session = session]

\* form.save() of an update form: the posted value of each field of the
\* form is set on the instance, which is then saved; session is what a
\* request posts for the field of that name.
FormSave(entry, additional_notes, session) ==
    [entry EXCEPT !.additional_notes = additional_notes]

\* ObservationDetailView.post by `user`.
UpdateObservation(user) ==
    \E obs_type \in {"star", "special_event", "bogus"},
       obs_id \in 1..MaxEntries, valid \in BOOLEAN,
       additional_notes \in {"n1"}, session \in 1..MaxOwned :
        LET found == get_observation(user, obs_id, obs_type)
        IN  /\ db' = IF found /\ valid
                     THEN [db EXCEPT ![obs_id] =
                              FormSave(@, additional_notes, session)]
                     ELSE db
            /\ last' = [user |-> user, op |-> "update", id |-> obs_id,
                        ok |-> found /\ valid]
            /\ UNCHANGED <<sessions, savers>>

\* obs_type.lower()
Lower(obs_type) ==
    CASE obs_type = "Star" -> "star"
      [] OTHER             -> obs_type

\* model_map.get(obs_type.lower()) of the delete view.
DeleteType(obs_type) ==
    LET key == Lower(obs_type)
    IN  CASE key \in {"solarsystem", "solar_system"}   -> "solar-system"
          [] key = "star"                              -> "star"
          [] key \in {"deepsky", "deep_sky"}           -> "deep-sky"
          [] key \in {"specialevent", "special_event"} -> "special-event"
          [] OTHER                                     -> "none"

\* DeleteObservationView.post by `user`.
DeleteObservation(user) ==
    \E obs_type \in {"Star", "special_event", "bogus"},
       obs_id \in 1..MaxEntries :
        LET found == /\ DeleteType(obs_type) # "none"
                     /\ Found(user, DeleteType(obs_type), obs_id)
        IN  /\ db' = IF found THEN [db EXCEPT ![obs_id].live = FALSE] ELSE db
            /\ last' = [user |-> user, op |-> "delete", id |-> obs_id,
                        ok |-> found]
            /\ UNCHANGED <<sessions, savers>>

OwnerNext ==
    \/ BeginOwned("a")
    \/ FullCleanExcludeSlug("a")
    \/ GenerateSlugStart("a")
    \/ GenerateSlugProbe("a")
    \/ FullClean("a")
    \/ Write("a")
    \/ Return("a")
    \/ \E user \in Users : AddObservation(user)
    \/ \E user \in Users : UpdateObservation(user)
    \/ \E user \in Users : DeleteObservation(user)

OwnerSpec == Init /\ [][OwnerNext]_vars

(***************************************************************************)
(* Sessions created, edited and deleted one request at a time.  Sessions   *)
(* are edited and deleted through the admin site; a deleted row stays in   *)
(* the sequence as a row of user 0 without slug, so that primary keys are  *)
(* not given twice.                                                        *)
(***************************************************************************)
MaxSlugRows == 3

\* Sessions of two users on two days: <<user, start, end>>.
SlugForms ==
    {<<1, 1, NoEnd>>, <<1, 2, NoEnd>>, <<2, 1, NoEnd>>}

BeginSlugged(p) == Create(p, SlugForms, MaxSlugRows)

\* The row is in the table.
Live(row) == row.user # 0

\* Faulty variant of Deleted: the row is only marked, its slug stays in the
\* unique column.
DeletedKeepsSlug(row) ==
    [row EXCEPT !.user = 0]

\* What is left of a row after DELETE: nothing but the fact that its
\* primary key was used (first_slug records what its slug was).
Deleted(row) ==
    [row EXCEPT !.user = 0, !.slug = NoSlug]

\* The admin site deletes a session while no save is running.
DeleteSession ==
    \E pk \in 1..Len(sessions) :
        /\ \A p \in Savers : savers[p].pc = "idle"
        /\ Live(sessions[pk])
        /\ sessions' = [sessions EXCEPT ![pk] = Deleted(@)]
        /\ UNCHANGED <<db, last, savers>>

\* The admin site saves a session with another start, while no other save
\* is running.
EditStart(p) ==
    \E pk \in 1..Len(sessions), start \in {1, 2} :
        /\ savers[p].pc = "idle"
        /\ Live(sessions[pk])
        /\ start # sessions[pk].datetime_start_ut
        /\ SetSaver(p, Saver("clean1",
                             Session(pk, sessions[pk].user, start,
                                     sessions[pk].datetime_end_ut,
                                     sessions[pk].slug),
                             MaxAttempts, NoSlug, 0, "none", 0, 0))
        /\ UNCHANGED sessions

SlugNext ==
    \/ BeginSlugged("a")
    \/ EditStart("a")
    \/ DeleteSession
    \/ FullCleanExcludeSlug("a")
    \/ GenerateSlugStart("a")
    \/ GenerateSlugProbe("a")
    \/ FullClean("a")
    \/ Write("a")
    \/ Return("a")

\* The thread that runs generate_slug keeps running.
SlugSpec ==
    /\ Init
    /\ [][SlugNext]_vars
    /\ WF_vars(GenerateSlugStart("a") \/ GenerateSlugProbe("a"))

(***************************************************************************)
(* The slug as the string the database holds, and the                      *)
(* extract_date_from_slug template filter.                                 *)
(***************************************************************************)
\* "-".join(parts)
RECURSIVE JoinHyphen(_)
JoinHyphen(parts) ==
    IF parts = <<>> THEN ""
    ELSE IF Len(parts) = 1 THEN parts[1]
    ELSE parts[1] \o "-" \o JoinHyphen(Tail(parts))

\* The string of a slug: f"{user_pk}-{date_part}" and
\* f"{base_slug}-{suffix}" put hyphens between its parts.
SlugString(slug) == JoinHyphen(slug)

\* datetime_start_ut.strftime("%Y-%m-%d") as a string.
DatePart(t) == JoinHyphen(Strftime(t))

\* slug.split("-") from character i on, cur being the part read so far.
RECURSIVE SplitFrom(_, _, _)
SplitFrom(slug, i, cur) ==
    IF i > Len(slug) THEN <<cur>>
    ELSE IF SubSeq(slug, i, i) = "-"
    THEN <<cur>> \o SplitFrom(slug, i + 1, "")
    ELSE SplitFrom(slug, i + 1, cur \o SubSeq(slug, i, i))

\* slug.split("-")
Split(slug) == SplitFrom(slug, 1, "")

\* Faulty variant of extract_date_from_slug: the first three parts are
\* taken.
extract_date_from_slug_from_first_part(slug) ==
    LET parts == Split(slug)
    IN  IF Len(parts) >= 4
        THEN parts[1] \o "-" \o parts[2] \o "-" \o parts[3]
        ELSE slug

\* extract_date_from_slug(slug); parts[1], parts[2], parts[3] of the code
\* are the second to fourth part.
extract_date_from_slug(slug) ==
    LET parts == Split(slug)
    IN  IF Len(parts) >= 4
        THEN parts[2] \o "-" \o parts[3] \o "-" \o parts[4]
        ELSE slug

(***************************************************************************)
(* Properties.                                                             *)
(***************************************************************************)
\* The last operation was a post of a known type with a valid form.
ValidPost ==
    /\ last.op = "post"
    /\ last.otype \in ObservationTypes
    /\ last.valid

\* The row written last.
LastRow == db[Len(db)]

ApiTypes == {"star", "deep-sky", "solar-system"}

\* The collaborator was queried and answered with a row.
LookupGaveRow ==
    /\ last.res.lookups > 0
    /\ ~last.lookup.raises
    /\ ~last.lookup.table.isNone
    /\ last.lookup.table.nrows = 1

\* ... whose measurement column holds a float greater than zero.
LookupGavePositiveMeasure ==
    /\ LookupGaveRow
    /\ HasColumn(last.lookup.table, MeasureColumn(last.otype))
    /\ Positive(Cell(last.lookup.table, MeasureColumn(last.otype)))

NoEnrichment(row) ==
    /\ row.api_payload.null
    /\ row.distance_light_years.null
    /\ row.distance_miles.null

BothOrNeither(obs) ==
    obs.distance_light_years.null = obs.distance_miles.null

\* C1: every valid post, whatever the lookup answered, ends with the
\* observation persisted and with no exception leaving post.
C1_ValidPostAlwaysPersists ==
    ValidPost => last.res.persisted /\ last.res.escaped = "none"

\* C2: a solar-system observation of a mapped body whose ephemeris row has
\* lighttime t > 0 is persisted with payload "lighttime" = str(t),
\* distance_light_years = t / 525600 and distance_miles = that times
\* 5,880,000,000,000, both non-null.
C2_LighttimeGivesDistance ==
    (/\ ValidPost
     /\ last.otype = "solar-system"
     /\ HorizonsId(last.ident) # 0
     /\ LookupGavePositiveMeasure)
    => LET t  == Cell(last.lookup.table, "lighttime")
           ly == DecDiv(DecFromFloat(t.n, t.k), Dec(NatDigits(5256000), -1))
       IN  /\ last.res.persisted
           /\ PayloadHas(LastRow.api_payload, "lighttime")
           /\ PayloadGet(LastRow.api_payload, "lighttime") = PyStr(t)
           /\ LastRow.distance_light_years = StoredDecimal(ly)
           /\ LastRow.distance_miles = StoredDecimal(DecMulMilesPerLy(ly))

C4_BothDistancesOrNeither ==
    /\ \A i \in 1..Len(db) : BothOrNeither(db[i])
    /\ last.op = "post" => BothOrNeither(last.res.obs)
    /\ (last.op = "calc" /\ last.res.raises = "none")
       => /\ BothOrNeither(last.res.obs)
          /\ last.res.ly.null = last.res.miles.null

\* The calculation returned for an unusable argument on an object that
\* had both distances set.
C4_Witness ==
    /\ last.op = "calc"
    /\ last.res.raises = "none"
    /\ ~last.before.distance_light_years.null
    /\ ~last.before.distance_miles.null
    /\ last.arg = PyText("abc")

\* C5: a valid post calls save exactly once, as its last step, on every
\* path, the paths where a step of the try block raises included.
C5_SavedExactlyOnce ==
    ValidPost
    => /\ last.res.saves = 1
       /\ \A i \in 1..Len(last.res.steps) :
              last.res.steps[i] = "save" <=> i = Len(last.res.steps)

\* The catalog lookup of a valid star post raised.
StarLookupFailed ==
    /\ ValidPost
    /\ last.otype = "star"
    /\ last.res.lookups > 0
    /\ last.lookup.raises

\* The post wrote a row without payload and distances, and raised nothing.
SavedWithoutEnrichment ==
    /\ last.res.persisted
    /\ last.res.escaped = "none"
    /\ NoEnrichment(LastRow)

C7_NoLookupForSpecialEventAndOther ==
    /\ (ValidPost /\ last.otype = "special-event") => last.res.lookups = 0
    /\ (ValidPost /\ last.otype = "solar-system" /\ last.ident = "other")
       => /\ last.res.lookups = 0
          /\ last.res.persisted
          /\ LastRow.otype = "solar-system"
          /\ LastRow.ident = "other"
          /\ NoEnrichment(LastRow)

C7_Witness ==
    /\ ValidPost
    /\ last.otype = "solar-system"
    /\ last.ident = "other"
    /\ last.res.persisted

\* C8: when an exception is raised during enrichment, the persisted
\* observation has null payload and null distances, also when the payload
\* had been assigned before the exception.
C8_FailureDiscardsPartialResults ==
    (/\ ValidPost
     /\ \E i \in 1..Len(last.res.log) : last.res.log[i] = "error"
     /\ last.res.persisted)
    => NoEnrichment(LastRow)

\* num / den rounded half-even to a whole number; num is a digit sequence.
RoundedQuotient(num, den) ==
    LET dm  == DivMod(num, den)
        odd == dm.q[Len(dm.q)] % 2 = 1
    IN  IF 2 * dm.r > den \/ (2 * dm.r = den /\ odd) THEN Inc(dm.q) ELSE dm.q

\* 3260 / p in units of 10^-places, for p = n / 2^k, from the exact quotient.
ExactLightYears(p, places) ==
    RoundedQuotient(NatDigits(3260 * Pow(2, p.k)) \o Zeros(places), p.n)

\* (3260 / p) * 5880000000000 in units of 10^-places, from the exact quotient.
ExactMiles(p, places) ==
    RoundedQuotient(NatDigits(3260 * 588 * Pow(2, p.k)) \o Zeros(10 + places), p.n)

\* The calculation was called with a positive float on an object with
\* catalog data.
CalcOnPositive ==
    /\ last.op = "calc"
    /\ has_catalog_data(last.before)
    /\ last.arg.t = "float"
    /\ Positive(last.arg)

\* A valid star or deep-sky post whose row had a positive parallax was
\* persisted.
PersistedWithParallax ==
    /\ ValidPost
    /\ last.otype \in {"star", "deep-sky"}
    /\ LookupGavePositiveMeasure
    /\ last.res.persisted

\* What the calculation returns: the pair it stores on the object, equal
\* to 3260 / p and (3260 / p) * 5880000000000 when rounded to `places`
\* fractional digits, and itself not rounded when 3260 / p is not exact.
CalcIsExact(places) ==
    CalcOnPositive
    => /\ last.res.raises = "none"
       /\ last.res.ly = last.res.obs.distance_light_years
       /\ last.res.miles = last.res.obs.distance_miles
       /\ Rescale(last.res.ly, places).coef = ExactLightYears(last.arg, places)
       /\ Rescale(last.res.miles, places).coef = ExactMiles(last.arg, places)
       /\ DivMod(NatDigits(3260 * Pow(2, last.arg.k)) \o Zeros(2), last.arg.n).r # 0
          => last.res.ly.exp < -2

\* What is stored: both distances rounded to `places` fractional digits.
StoredRoundedTo(places) ==
    PersistedWithParallax
    => LET p    == Cell(last.lookup.table, "plx_value")
           fill == Zeros(DecimalPlaces - places)
       IN  /\ LastRow.distance_light_years
                  = Dec(ExactLightYears(p, places) \o fill, -DecimalPlaces)
           /\ LastRow.distance_miles
                  = Dec(ExactMiles(p, places) \o fill, -DecimalPlaces)

\* C9 as stated: for positive p the calculation yields 3260 / p and that
\* times 5,880,000,000,000, returns the pair it stores, and the values are
\* rounded to 1 fractional digit at the boundary only.
C9_RoundedToOneDigitAtBoundary ==
    CalcIsExact(1) /\ StoredRoundedTo(1)

\* C9 as amended: the boundary is the save, and it rounds to 2 fractional
\* digits.
C9_RoundedToTwoDigitsAtSave ==
    CalcIsExact(2) /\ StoredRoundedTo(2)

\* A star with parallax 4.5 mas is stored: 3260 / 4.5 = 724.444...
C9_Witness ==
    /\ PersistedWithParallax
    /\ Cell(last.lookup.table, "plx_value") = PyFloat(9, 1)
    /\ ~LastRow.distance_light_years.null

\* The calculation was called with 0, -5 or "abc".
CalcOnInvalid ==
    /\ last.op = "calc"
    /\ last.arg \in {PyFloat(0, 0), PyFloat(-5, 0), PyText("abc")}

CreatedBefore(i) ==
    Cardinality({j \in 1..i :
        /\ sessions[j].user = sessions[i].user
        /\ sessions[j].born \div DayLen = sessions[i].born \div DayLen})

\* The slug the n-th session of a user for 2024-01-01 is to get.
NthSlug(user, n) ==
    <<DigitText[user + 1], "2024", "01", "01">>
        \o (IF n = 1 THEN <<>> ELSE <<DigitText[n]>>)

\* C11: of the sessions a user creates for one start date, the first gets
\* the slug <user>-<date> and the n-th gets <user>-<date>-(n-1).
C11_NthSessionGetsSuffix ==
    \A i \in 1..Len(sessions) :
        sessions[i].born \div DayLen = 0
        => sessions[i].slug = NthSlug(sessions[i].user, CreatedBefore(i))

\* Three sessions of user 1 for the same date are persisted.
C11_Witness ==
    \E i \in 1..Len(sessions) :
        /\ sessions[i].user = 1
        /\ CreatedBefore(i) = 3
        /\ sessions[i].slug = <<"1", "2024", "01", "01", "2">>

\* C12: whatever creates and updates ran, in whatever interleaving, no two
\* persisted sessions have the same slug and none has an empty slug.
C12_SlugsUniqueAndNonEmpty ==
    \A i \in 1..Len(sessions) :
        /\ sessions[i].slug # NoSlug
        /\ \A j \in 1..Len(sessions) :
               sessions[i].slug = sessions[j].slug => i = j

\* Two sessions of one user and date are persisted, the second by a save
\* whose first write was refused.
C12_Witness ==
    /\ Len(sessions) = 2
    /\ sessions[1].user = sessions[2].user
    /\ sessions[1].born = sessions[2].born
    /\ \E p \in Savers : savers[p].pc = "done" /\ savers[p].failed = 1

\* C13: a save tries at most 5 writes; a refused write that leaves attempts
\* sends it back to the first validation with the slug cleared; it raises
\* the uniqueness error exactly when 5 writes were refused, and returns
\* right after the first write that is accepted.
C13_FiveWriteAttempts ==
    \A p \in Savers :
        LET s == savers[p]
        IN  /\ s.writes <= 5
            /\ (s.pc = "raised" /\ s.raised = "IntegrityError") <=> s.failed = 5
            /\ s.pc = "done" => s.writes = s.failed + 1
            /\ s.pc \in {"clean1", "generate", "probe", "clean2", "write"}
               => s.writes = s.failed /\ s.failed < 5
            /\ (s.pc = "clean1" /\ s.failed > 0) => s.self.slug = NoSlug

\* A save gave up after its fifth refused write.
C13_Witness ==
    \E p \in Savers :
        /\ savers[p].pc = "raised"
        /\ savers[p].raised = "IntegrityError"
        /\ savers[p].writes = 5

\* C14: a creation that loses the race for its candidate slug surfaces no
\* error to its caller unless 5 of its writes were refused: with valid
\* fields, save raises only with the retry budget used up.
C14_LoserRetriesWithoutError ==
    \A p \in Savers :
        savers[p].pc = "raised" => savers[p].failed = 5

\* C15: a session that has a slug keeps it: every persisted session has the
\* slug of its first save, and so has every object of a persisted session
\* at every step of a later save, also when its start time was changed.
C15_SlugIsKept ==
    /\ \A i \in 1..Len(sessions) : sessions[i].slug = sessions[i].first_slug
    /\ \A p \in Savers :
           savers[p].self.pk # 0
           => savers[p].self.slug = sessions[savers[p].self.pk].first_slug

\* A session was saved again with its start moved to another day.
C15_Witness ==
    \E p \in Savers :
        LET s == savers[p]
        IN  /\ s.pc = "done"
            /\ s.self.pk # 0
            /\ sessions[s.self.pk].datetime_start_ut \div DayLen
                   # sessions[s.self.pk].born \div DayLen
            /\ sessions[s.self.pk].datetime_start_ut = s.self.datetime_start_ut

\* The start is after tick 3 (now), or there is an end and it is not after
\* the start.
FailsFieldValidation(session) ==
    \/ session.datetime_start_ut > 3
    \/ \E t \in 0..5 : session.datetime_end_ut = <<t>>
                       /\ ~(t > session.datetime_start_ut)

\* C16: a save of a session that fails field validation raises
\* ValidationError on its first cycle, with no write tried and no retry,
\* and no such session is ever in the table.
C16_InvalidSessionIsNotWritten ==
    /\ \A p \in Savers :
           LET s == savers[p]
           IN  (s.pc # "idle" /\ FailsFieldValidation(s.self))
               => /\ s.pc \in {"clean1", "raised"}
                  /\ s.pc = "raised" => s.raised = "ValidationError"
                  /\ s.writes = 0
                  /\ s.attempts_remaining = 5
    /\ \A i \in 1..Len(sessions) : ~FailsFieldValidation(sessions[i])

\* An edit that makes a persisted session end when it starts was refused.
C16_Witness ==
    \E p \in Savers :
        LET s == savers[p]
        IN  /\ s.pc = "raised"
            /\ s.self.pk # 0
            /\ s.self.datetime_end_ut = <<s.self.datetime_start_ut>>
            /\ sessions[s.self.pk].datetime_end_ut # s.self.datetime_end_ut

(***************************************************************************)
(* Properties of the batch command, of normalization and of the object     *)
(* type filter.                                                            *)
(***************************************************************************)
\* C17: the batch command visits every solar-system row with a payload and
\* no distance, and no failure on one row aborts the scan.
C17_BatchScansEverySelectedRow ==
    last.op = "batch"
    => /\ last.res.escaped = "none"
       /\ {last.res.visited[k] : k \in 1..Len(last.res.visited)}
              = {i \in 1..Len(db) : BatchSelects(db[i])}

\* The string rendering of a cell, stated case by case: a float prints its
\* digits, a masked cell "--", None "None", text itself.
IsRenderingOf(d, v) ==
    /\ d.t \in {"numstr", "str"}
    /\ v.t = "float" => d.t = "numstr" /\ d.n = v.n /\ d.k = v.k
    /\ v.t = "masked" => d.t = "str" /\ d.s = "--"
    /\ v.t = "None" => d.t = "str" /\ d.s = "None"
    /\ v.t = "str" => d = v

\* C18: for a star, deep-sky or solar-system request whose lookup
\* returned, no error of the normalization leaves post (only a failing
\* save does, after the payload was assigned); the persisted payload is
\* null when the result is None or has no row, and otherwise has one
\* entry per column, in the columns' order, holding the string rendering
\* of the first row's cell.
C18_NormalizationIsTotal ==
    (/\ last.op = "post" /\ last.valid
     /\ last.otype \in ApiTypes
     /\ last.res.lookups > 0 /\ ~last.lookup.raises)
    => LET result_table == last.lookup.table
           res == last.res
       IN  /\ res.escaped # "none"
              => /\ res.escaped = "InvalidOperation"
                 /\ res.steps[Len(res.steps)] = "save"
                 /\ ~res.obs.api_payload.null
           /\ res.persisted
              => /\ LastRow.api_payload = res.obs.api_payload
                 /\ IF result_table.isNone \/ result_table.nrows = 0
                    THEN LastRow.api_payload.null
                    ELSE /\ ~LastRow.api_payload.null
                         /\ Len(LastRow.api_payload.data)
                                = Len(result_table.colnames)
                         /\ \A i \in 1..Len(result_table.colnames) :
                                /\ LastRow.api_payload.data[i][1]
                                       = result_table.colnames[i]
                                /\ IsRenderingOf(
                                       LastRow.api_payload.data[i][2],
                                       result_table.row[i])

\* A row is persisted whose payload renders a None cell and a text cell.
C18_Witness ==
    /\ last.op = "post" /\ last.valid /\ last.res.persisted
    /\ ~last.lookup.raises /\ last.lookup.table.nrows = 1
    /\ \E i \in 1..Len(last.lookup.table.row) :
           /\ last.lookup.table.row[i] = PyNone
           /\ LastRow.api_payload.data[i][2] = PyText("None")

\* The filter was applied to a payload that has a code.
FilterOnCode ==
    /\ last.op = "filter"
    /\ ~last.arg.null
    /\ PayloadHas(last.arg, "otype")

\* The code the filter was applied to.
FilterCode == PayloadGet(last.arg, "otype").s

\* The label a code is to get: the description the table has for it,
\* or "Unknown (<code>)".
LabelOf(code) ==
    IF \E i \in 1..Len(ObjectTypeMapping) : ObjectTypeMapping[i][1] = code
    THEN LET i == CHOOSE j \in 1..Len(ObjectTypeMapping) :
                      ObjectTypeMapping[j][1] = code
         IN  ObjectTypeMapping[i][2]
    ELSE "Unknown (" \o code \o ")"

\* Two applications in a row to the same payload give the same result.
SameCodeSameLabel ==
    (last.op = "filter" /\ last'.op = "filter" /\ last'.arg = last.arg)
    => last'.res = last.res

\* C19 as stated: for every code string the filter returns the table's
\* description, or "Unknown (<code>)" for a code that is not in the table.
C19_TotalOverCodeStrings ==
    FilterOnCode => last.res = PyText(LabelOf(FilterCode))

\* C19 as amended: that holds for every code string but the empty one,
\* for which the filter returns None; the same payload always gives the
\* same result.
C19_TotalOverNonEmptyCodes ==
    /\ [](FilterOnCode
          => /\ FilterCode # "" => last.res = PyText(LabelOf(FilterCode))
             /\ FilterCode = "" => last.res = PyNone
             /\ FilterCode = "QSO" => last.res = PyText("Quasar")
             /\ FilterCode = "XYZ_UNKNOWN"
                => last.res = PyText("Unknown (XYZ_UNKNOWN)"))
    /\ [][SameCodeSameLabel]_vars

\* The filter named a code that the table has only in another case.
C19_Witness ==
    /\ FilterOnCode
    /\ FilterCode = "qso"
    /\ last.res = PyText("Unknown (qso)")

(***************************************************************************)
(* Further properties of AddObservationView.post.                          *)
(***************************************************************************)
\* The last request had an invalid form or an unknown observation type.
RejectedRequest ==
    /\ last.op = "post"
    /\ ~last.valid \/ last.otype \notin ObservationTypes

\* C21: a request with an invalid form or an unknown observation type
\* queries no collaborator, calls no save and leaves the table as it was.
C21_ValidatedBeforeEnrichment ==
    /\ [](RejectedRequest
          => /\ last.res.lookups = 0
             /\ last.res.steps = <<>>
             /\ last.res.saves = 0
             /\ ~last.res.persisted)
    /\ [][RejectedRequest' => db' = db]_vars

\* An invalid star form was posted after an observation had been stored.
C21_Witness ==
    /\ RejectedRequest
    /\ last.otype = "star"
    /\ ~last.valid
    /\ Len(db) = 1

\* The lookup of a valid request gave a row whose measurement is zero,
\* negative or text that is no number.
LookupGaveInvalidMeasure ==
    /\ ValidPost
    /\ last.otype \in ApiTypes
    /\ LookupGaveRow
    /\ HasColumn(last.lookup.table, MeasureColumn(last.otype))
    /\ Cell(last.lookup.table, MeasureColumn(last.otype))
           \in {PyFloat(0, 0), PyFloat(-5, 0), PyText("abc")}

\* C22: a row whose measurement is zero, negative or not a number is
\* persisted with its normalized payload and null distances, and a log
\* entry about the skipped measurement is written (the entry "info" of the
\* deep-sky branch reports the lookup, not the measurement).
C22_InvalidMeasureLoggedAndSkipped ==
    LookupGaveInvalidMeasure
    => /\ last.res.persisted
       /\ last.res.escaped = "none"
       /\ LastRow.api_payload = Payload(Normalize(last.lookup.table))
       /\ LastRow.distance_light_years.null
       /\ LastRow.distance_miles.null
       /\ \E i \in 1..Len(last.res.log) : last.res.log[i] # "info"

\* A collaborator was queried for a valid request.
EnrichmentAttempt ==
    /\ ValidPost
    /\ last.otype \in ApiTypes
    /\ last.res.lookups > 0

\* C23: every request that queries a collaborator writes at least one log
\* entry, whether the lookup gave a row, gave none or raised.
C23_EveryAttemptIsLogged ==
    EnrichmentAttempt => last.res.log # <<>>

(***************************************************************************)
(* Further properties of ObservingSession.                                 *)
(***************************************************************************)
\* The start is not after tick 3 (now; the clock only moves on, so a start
\* that was not in the future when validated is not when written), and an
\* end, if there is one, is after the start.
TimesInOrder(session) ==
    /\ session.datetime_start_ut <= 3
    /\ session.datetime_end_ut # <<>>
       => session.datetime_end_ut[1] > session.datetime_start_ut

\* C24: every persisted session has its end, if present, strictly after
\* its start and a start that is not in the future, and so has every
\* object at the step of save that writes it.
C24_PersistedTimesInOrder ==
    /\ [](\A i \in 1..Len(sessions) : TimesInOrder(sessions[i]))
    /\ [][\A p \in Savers :
              (savers[p].pc = "write" /\ savers'[p].pc = "done")
              => TimesInOrder(savers[p].self)]_vars

\* A session with an end is persisted, and so is one that starts now.
C24_Witness ==
    /\ \E i \in 1..Len(sessions) :
           /\ sessions[i].datetime_end_ut = <<3>>
           /\ sessions[i].datetime_start_ut = 2
    /\ \E p \in Savers : savers[p].pc = "done"

(***************************************************************************)
(* Further properties of the batch command.                                *)
(***************************************************************************)
\* The row has a distance already, or has no payload.
SettledOrBare(row) ==
    ~row.distance_light_years.null \/ row.api_payload.null

C26_UpdateKeepsEnrichment ==
    [][last'.op = "update"
       => /\ Len(db') = Len(db)
          /\ \A i \in 1..Len(db) :
                 /\ db'[i].obs.api_payload = db[i].obs.api_payload
                 /\ db'[i].obs.distance_light_years
                        = db[i].obs.distance_light_years
                 /\ db'[i].obs.distance_miles = db[i].obs.distance_miles
                 /\ db'[i].obs.ident = db[i].obs.ident
                 /\ db'[i].obs.otype = db[i].obs.otype
                 /\ db'[i].session = db[i].session
                 /\ db'[i].live = db[i].live]_vars

\* An update of a star observation with payload and distances was saved.
C26_Witness ==
    /\ last.op = "update"
    /\ last.ok
    /\ db[last.id].additional_notes = "n1"
    /\ ~db[last.id].obs.api_payload.null
    /\ ~db[last.id].obs.distance_light_years.null

\* The step is a request to the update or delete view (a step of a session
\* save changes savers).
ChangeRequest ==
    /\ last'.op \in {"update", "delete"}
    /\ savers' = savers

\* The user who owns the session of observation i.
OwnerOf(i) == sessions[db[i].session].user

\* C27: an update or delete request changes only the observation it names,
\* and only when the session of that observation belongs to the requesting
\* user; an observation is added only to a session of the requesting user;
\* a request that names an observation of another user changes no row.
C27_OnlyOwnerChanges ==
    [][/\ (ChangeRequest /\ db' # db)
          => /\ last'.id \in 1..Len(db)
             /\ OwnerOf(last'.id) = last'.user
             /\ Len(db') = Len(db)
             /\ \A i \in 1..Len(db) : i # last'.id => db'[i] = db[i]
       /\ (last'.op = "add" /\ Len(db') > Len(db))
          => /\ sessions[db'[Len(db')].session].user = last'.user
             /\ \A i \in 1..Len(db) : db'[i] = db[i]
       /\ (ChangeRequest /\ last'.id \in 1..Len(db)
           /\ OwnerOf(last'.id) # last'.user)
          => (db' = db /\ sessions' = sessions)]_vars

\* A user asked to delete a live observation of another user's session and
\* was refused.
C27_Witness ==
    /\ last.op = "delete"
    /\ ~last.ok
    /\ last.id \in 1..Len(db)
    /\ db[last.id].live
    /\ db[last.id].obs.otype = "star"
    /\ OwnerOf(last.id) # last.user

(***************************************************************************)
(* The star and the deep-sky branch of AddObservationView.post compared.   *)
(***************************************************************************)
\* A valid star or deep-sky request.
CatalogPost ==
    /\ ValidPost
    /\ last.otype \in {"star", "deep-sky"}

\* What the branch of the other of the two types does with the answer the
\* last request got.
OtherBranch ==
    IF last.otype = "star"
    THEN PostOutcome("deep-sky", "M42", TRUE, last.lookup)
    ELSE PostOutcome("star", "Mira", TRUE, last.lookup)

\* C28: for the same answer of the catalog, the star branch and the
\* deep-sky branch persist or fail alike and persist the same payload and
\* the same two distances.
C28_StarAndDeepSkyAgree ==
    CatalogPost
    => /\ OtherBranch.persisted = last.res.persisted
       /\ last.res.persisted
          => /\ StoredRow(OtherBranch.obs).api_payload = LastRow.api_payload
             /\ StoredRow(OtherBranch.obs).distance_light_years
                    = LastRow.distance_light_years
             /\ StoredRow(OtherBranch.obs).distance_miles
                    = LastRow.distance_miles

\* A star was stored after the catalog answered with a table without rows,
\* the answer the two branches treat by different code.
C28_Witness ==
    /\ CatalogPost
    /\ last.otype = "star"
    /\ ~last.lookup.raises
    /\ ~last.lookup.table.isNone
    /\ last.lookup.table.nrows = 0
    /\ last.res.persisted
    /\ LastRow.api_payload.null

(***************************************************************************)
(* Properties of generate_slug.                                            *)
(***************************************************************************)
\* The n-th candidate of a base: the base itself for 0, base-n after it.
NthCandidate(base, n) ==
    IF n = 0 THEN base ELSE base \o <<DigitText[n + 1]>>

\* The first candidate, in the order base, base-1, base-2, ..., that is
\* not in slugs.
FirstUnused(base, slugs) ==
    NthCandidate(base,
        CHOOSE n \in 0..9 :
            /\ NthCandidate(base, n) \notin slugs
            /\ \A m \in 0..(n - 1) : NthCandidate(base, m) \in slugs)

\* The slugs of the rows in the table that satisfy Keep.
SlugsWhere(Keep(_)) ==
    {sessions[i].slug : i \in {j \in 1..Len(sessions) :
                                  Live(sessions[j]) /\ Keep(sessions[j])}}

\* A new session has its slug and is not written yet.
SlugAssigned(s) ==
    /\ s.pc \in {"clean2", "write"}
    /\ s.self.pk = 0

\* The user and day a session's slug is built from, as the slug's base.
BaseOf(session) ==
    <<DigitText[session.user + 1], "2024", "01",
      "0" \o DigitText[(session.datetime_start_ut \div 2) + 2]>>

\* generate_slug gave a new session the first unused candidate among the
\* slugs of the rows that satisfy Keep.
AssignsFirstUnusedAmong(Keep(_, _)) ==
    \A p \in Savers :
        LET s == savers[p]
            KeepFor(row) == Keep(s.self, row)
        IN  SlugAssigned(s)
            => s.self.slug = FirstUnused(BaseOf(s.self), SlugsWhere(KeepFor))

AnyRow(session, row) == TRUE

\* The row is a session of the same user that starts on the same day.
SameUserAndDay(session, row) ==
    /\ row.user = session.user
    /\ row.datetime_start_ut \div 2 = session.datetime_start_ut \div 2

\* The row's slug was generated for the same user and day.
SlugForSameUserAndDay(session, row) ==
    /\ Len(row.slug) >= 4
    /\ SubSeq(row.slug, 1, 4) = BaseOf(session)

\* generate_slug, once it runs, ends.
GenerateSlugEnds ==
    \A p \in Savers :
        (savers[p].pc \in {"generate", "probe"})
            ~> (savers[p].pc \notin {"generate", "probe"})

C30_SlugRoundTrip ==
    /\ \A p \in Savers :
           SlugAssigned(savers[p])
           => extract_date_from_slug(SlugString(savers[p].self.slug))
                  = DatePart(savers[p].self.datetime_start_ut)
    /\ \A i \in 1..Len(sessions) :
           Live(sessions[i])
           => /\ extract_date_from_slug(SlugString(sessions[i].slug))
                     = DatePart(sessions[i].born)
              /\ extract_date_from_slug(SlugString(sessions[i].slug))
                     \in {"2024-01-01", "2024-01-02"}
    /\ extract_date_from_slug("1-2025-10-11-1") = "2025-10-11"

\* Sessions with the slugs 1-2024-01-02 and 1-2024-01-02-1 are in the
\* table.
C30_Witness ==
    \E i \in 1..Len(sessions), j \in 1..Len(sessions) :
        /\ Live(sessions[i]) /\ Live(sessions[j])
        /\ SlugString(sessions[i].slug) = "1-2024-01-02"
        /\ SlugString(sessions[j].slug) = "1-2024-01-02-1"
        /\ extract_date_from_slug(SlugString(sessions[j].slug)) = "2024-01-02"

====
